---- MODULE Spec2Model ----
(***************************************************************************)
(* Model of two format-translation layers of GDAL/OGR:                     *)
(*   - IMapInfoFile (mitab_imapinfofile.cpp): GetTABType, CreateField,     *)
(*     CreateTABFeature, ICreateFeature;                                   *)
(*   - OGRNASDataSource (ogrnasdatasource.cpp): TranslateNASSchema,        *)
(*     PopulateRelations.                                                  *)
(* Each subsystem has its own specification over the shared variables.     *)
(***************************************************************************)
EXTENDS Integers, Sequences, FiniteSets, TLC

VARIABLES
    pc,            \* position of the driver: "start", "done", "idle"
    oField,        \* the OGRFieldDefn handed to GetTABType / CreateField
    tabOut,        \* the caller's out-parameters *peTABType, *pnWidth, *pnPrecision
    nRet,          \* return value of the last GetTABType / CreateField call
    m_fields,      \* native field list of the layer (what AddFieldNative appended)
    bAddOK,        \* whether AddFieldNative accepted the field in the last call
    nUnsupported,  \* number of CreateField calls GetTABType has refused so far
    oFeature,      \* the caller's OGRFeature handed to ICreateFeature
    persistScript, \* what the layer's CreateFeature(TABFeature) answers, call by call
    submitted,     \* the TABFeatures handed to CreateFeature(TABFeature), in order
    eErr,          \* return value of the top-level ICreateFeature call
    oTABFeature,   \* what the top-level CreateTABFeature call returned (<<>>: NULL)
    oClass,        \* the GMLFeatureClass handed to TranslateNASSchema
    oLayer,        \* the OGRNASLayer TranslateNASSchema returned (<<>>: not yet)
    srsInputs,     \* the strings handed to OGRSpatialReference::SetFromUserInput
    oReader,       \* poReader: the feature stream and the reading position
    oRelationLayer,\* poRelationLayer: the relation records and the populated marker
    nCalls,        \* number of PopulateRelations calls begun so far
    nConsumed,     \* features NextFeature has returned in the current call
    nMarked        \* number of MarkRelationsPopulated calls so far

fieldVars == <<oField, tabOut, nRet, m_fields, bAddOK, nUnsupported>>
featVars == <<oFeature, persistScript, submitted, eErr, oTABFeature>>

schemaVars == <<oClass, oLayer, srsInputs>>

relVars == <<oReader, oRelationLayer, nCalls, nConsumed, nMarked>>

vars == <<pc, fieldVars, featVars, schemaVars, relVars>>

(***************************************************************************)
(* Bounds of the model.                                                    *)
(***************************************************************************)
MaxWidth == 26          \* small input widths are 0..MaxWidth
CharSlack == 2          \* input widths around the Char limit: 254 +/- CharSlack
MaxPrecision == 22      \* input precisions go up to MaxPrecision
NegPrecision == 2       \* input precisions go down to -NegPrecision
MaxFields == 2          \* CreateField calls on one layer

(***************************************************************************)
(* Program constants of GetTABType.                                        *)
(***************************************************************************)
IntegerDefaultWidth == 12
FloatWidth == 32
DecimalMaxWidth == 20
DecimalMinIntDigits == 2
DecimalMaxPrecision == 16
DateDefaultWidth == 10
TimeDefaultWidth == 9
DateTimeDefaultWidth == 19
CharMaxWidth == 254

OGRERR_NONE == "OGRERR_NONE"
OGRERR_FAILURE == "OGRERR_FAILURE"

OGRNullFID == -1

\* OGRFieldType values a field definition can carry.
OGRFieldTypes ==
    {"OFTInteger", "OFTReal", "OFTString", "OFTDate", "OFTTime", "OFTDateTime",
     "OFTStringList", "OFTIntegerList", "OFTRealList"}

Min(a, b) == IF a < b THEN a ELSE b

(***************************************************************************)
(* IMapInfoFile::GetTABType.  poField is [name, eType, nWidth,             *)
(* nPrecision]; out is the current content of the three out-parameters.    *)
(* The result is the return value together with the content of the         *)
(* out-parameters after the call.                                          *)
(***************************************************************************)

\* "if( nWidth == 0 ) nWidth = <default>;"
WidthOrDefault_Keep(nWidth0, nDefault) == nWidth0

WidthOrDefault(nWidth0, nDefault) ==
    IF nWidth0 = 0 THEN nDefault ELSE nWidth0

\* The TABFDecimal branch: "Enforce Mapinfo limits", three assignments in order.
ClampDecimal_NoWidthClamp(nWidth0, nPrecision0) ==
    LET p1 == IF nWidth0 - nPrecision0 < DecimalMinIntDigits
              THEN nWidth0 - DecimalMinIntDigits ELSE nPrecision0
        p2 == IF p1 > DecimalMaxPrecision THEN DecimalMaxPrecision ELSE p1
    IN  [nWidth |-> nWidth0, nPrecision |-> p2]

ClampDecimal(nWidth0, nPrecision0) ==
    IF nWidth0 > DecimalMaxWidth
       \/ nWidth0 - nPrecision0 < DecimalMinIntDigits
       \/ nPrecision0 > DecimalMaxPrecision
    THEN LET w1 == IF nWidth0 > DecimalMaxWidth THEN DecimalMaxWidth ELSE nWidth0
             p1 == IF w1 - nPrecision0 < DecimalMinIntDigits
                   THEN w1 - DecimalMinIntDigits ELSE nPrecision0
             p2 == IF p1 > DecimalMaxPrecision THEN DecimalMaxPrecision ELSE p1
         IN  [nWidth |-> w1, nPrecision |-> p2]
    ELSE [nWidth |-> nWidth0, nPrecision |-> nPrecision0]

GetTABType(poField, out) ==
    LET nWidth0 == poField.nWidth
        nPrecision0 == poField.nPrecision
        Ok(eTABType, nWidth, nPrecision) ==
            [ret |-> 0, eTABType |-> eTABType,
             nWidth |-> nWidth, nPrecision |-> nPrecision]
    IN  CASE poField.eType = "OFTInteger" ->
               Ok("TABFInteger", WidthOrDefault(nWidth0, IntegerDefaultWidth),
                  nPrecision0)
          [] poField.eType = "OFTReal" ->
               IF nWidth0 = 0 /\ nPrecision0 = 0
               THEN Ok("TABFFloat", FloatWidth, nPrecision0)
               ELSE LET c == ClampDecimal(nWidth0, nPrecision0)
                    IN  Ok("TABFDecimal", c.nWidth, c.nPrecision)
          [] poField.eType = "OFTDate" ->
               Ok("TABFDate", WidthOrDefault(nWidth0, DateDefaultWidth),
                  nPrecision0)
          [] poField.eType = "OFTTime" ->
               Ok("TABFTime", WidthOrDefault(nWidth0, TimeDefaultWidth),
                  nPrecision0)
          [] poField.eType = "OFTDateTime" ->
               Ok("TABFDateTime", WidthOrDefault(nWidth0, DateTimeDefaultWidth),
                  nPrecision0)
          [] poField.eType = "OFTString" ->
               Ok("TABFChar",
                  IF nWidth0 = 0 THEN CharMaxWidth ELSE Min(CharMaxWidth, nWidth0),
                  nPrecision0)
          [] OTHER ->
               \* unsupported type: return -1 before the out-parameters are written
               [ret |-> -1, eTABType |-> out.eTABType,
                nWidth |-> out.nWidth, nPrecision |-> out.nPrecision]

(***************************************************************************)
(* IMapInfoFile::CreateField.  Its locals are the out-parameters of        *)
(* GetTABType: eTABType is left uninitialised, nWidth and nPrecision are   *)
(* 0.  AddFieldNative is the sub-class's: it accepts the field (bAccept)   *)
(* and appends it, or refuses it and leaves the field list alone.          *)
(***************************************************************************)
CreateFieldLocals == [eTABType |-> "uninitialised", nWidth |-> 0, nPrecision |-> 0]

CreateField_IgnoresGetTABType(fields, field, bAccept) ==
    LET r == GetTABType(field, CreateFieldLocals)
        out == [eTABType |-> r.eTABType, nWidth |-> r.nWidth,
                nPrecision |-> r.nPrecision]
        native == [name |-> field.name, eTABType |-> r.eTABType,
                   nWidth |-> r.nWidth, nPrecision |-> r.nPrecision]
    IN  IF bAccept
        THEN [err |-> OGRERR_NONE, out |-> out, fields |-> Append(fields, native)]
        ELSE [err |-> OGRERR_FAILURE, out |-> out, fields |-> fields]

CreateField(fields, field, bAccept) ==
    LET r == GetTABType(field, CreateFieldLocals)
        out == [eTABType |-> r.eTABType, nWidth |-> r.nWidth,
                nPrecision |-> r.nPrecision]
        native == [name |-> field.name, eTABType |-> r.eTABType,
                   nWidth |-> r.nWidth, nPrecision |-> r.nPrecision]
    IN  IF r.ret < 0
        THEN [err |-> OGRERR_FAILURE, out |-> out, fields |-> fields]
        ELSE IF bAccept
             THEN [err |-> OGRERR_NONE, out |-> out,
                   fields |-> Append(fields, native)]
             ELSE [err |-> OGRERR_FAILURE, out |-> out, fields |-> fields]

(***************************************************************************)
(* The variables of a subsystem that a specification leaves alone.         *)
(***************************************************************************)
FieldIdle ==
    /\ oField = [name |-> "none", eType |-> "OFTInteger", nWidth |-> 0,
                 nPrecision |-> 0]
    /\ tabOut = CreateFieldLocals
    /\ nRet = 0
    /\ m_fields = <<>>
    /\ bAddOK = FALSE
    /\ nUnsupported = 0

FeatureIdle ==
    /\ oFeature = [nFID |-> OGRNullFID, poGeom |-> <<>>, fields |-> <<>>]
    /\ persistScript = <<>>
    /\ submitted = <<>>
    /\ eErr = OGRERR_NONE
    /\ oTABFeature = <<>>

SchemaIdle ==
    /\ oClass = [name |-> <<>>, geomProps |-> <<>>, nFeatureCount |-> 0,
                 pszSRSName |-> <<>>, props |-> <<>>]
    /\ oLayer = <<>>
    /\ srsInputs = <<>>

RelationsIdle ==
    /\ oReader = [features |-> <<>>, iNext |-> 1]
    /\ oRelationLayer = [relations |-> <<>>, bPopulated |-> FALSE]
    /\ nCalls = 0
    /\ nConsumed = 0
    /\ nMarked = 0

(***************************************************************************)
(* Features and geometries.  An optional value (a pointer that may be      *)
(* NULL) is a sequence of length 0 or 1.  A geometry is                    *)
(* [eType, nId, kids]: eType is the OGRwkbGeometryType, a base shape and   *)
(* the 2.5D flag; nId stands for the coordinates; kids are the members of  *)
(* a collection in enumeration order.                                      *)
(***************************************************************************)
Geom(base, b25D, nId, kids) ==
    [eType |-> [base |-> base, b25D |-> b25D], nId |-> nId, kids |-> kids]

Point(nId) == Geom("wkbPoint", FALSE, nId, <<>>)

MultiPoint(ids) ==
    Geom("wkbMultiPoint", FALSE, 0, [i \in 1 .. Len(ids) |-> Point(ids[i])])

GeometryCollection(kids) == Geom("wkbGeometryCollection", FALSE, 0, kids)

\* wkbFlatten: the 2.5D flag dropped, the base shape kept.
wkbFlatten(eGType) == eGType.base

(***************************************************************************)
(* The switch of CreateTABFeature: the TABFeature sub-class instantiated   *)
(* for a flattened geometry type; "none" for the collection types, which   *)
(* yield no TABFeature.                                                    *)
(***************************************************************************)
TABVariant_NoMultiPolygon(eFlat) ==
    CASE eFlat = "wkbPoint" -> "TABPoint"
      [] eFlat = "wkbPolygon" -> "TABRegion"
      [] eFlat \in {"wkbLineString", "wkbMultiLineString"} -> "TABPolyline"
      [] eFlat \in {"wkbGeometryCollection", "wkbMultiPoint"} -> "none"
      [] OTHER -> "TABFeature"

TABVariant(eFlat) ==
    CASE eFlat = "wkbPoint" -> "TABPoint"
      [] eFlat \in {"wkbPolygon", "wkbMultiPolygon"} -> "TABRegion"
      [] eFlat \in {"wkbLineString", "wkbMultiLineString"} -> "TABPolyline"
      [] eFlat \in {"wkbGeometryCollection", "wkbMultiPoint"} -> "none"
      [] OTHER -> "TABFeature"     \* wkbUnknown, wkbNone and default

(***************************************************************************)
(* ICreateFeature and CreateTABFeature call each other.  st threads the    *)
(* layer through the calls: st.log is what has been handed to              *)
(* CreateFeature(TABFeature) so far, st.script the answers it has yet to  *)
(* give (0: an error; n > 0: success, the feature gets FID n).             *)
(* Each operator returns the state of its argument feature after the call  *)
(* as well.                                                                *)
(***************************************************************************)
RECURSIVE ICreateFeature(_, _)
RECURSIVE CreateTABFeature(_, _)
RECURSIVE Decompose(_, _, _, _, _)

\* The for loop of the collection case, from index i with status eStatus;
\* poTmpFeature is the clone.
Decompose_NoFIDReset(poTmpFeature, kids, i, eStatus, st) ==
    IF eStatus = OGRERR_NONE /\ i <= Len(kids)
    THEN LET tmp == [poTmpFeature EXCEPT !.poGeom = <<kids[i]>>]
             r == ICreateFeature(tmp, st)
         IN  Decompose(r.feature, kids, i + 1, r.err, r.st)
    ELSE st

Decompose(poTmpFeature, kids, i, eStatus, st) ==
    IF eStatus = OGRERR_NONE /\ i <= Len(kids)
    THEN LET tmp == [poTmpFeature EXCEPT !.nFID = OGRNullFID,
                                         !.poGeom = <<kids[i]>>]
             r == ICreateFeature(tmp, st)
         IN  Decompose(r.feature, kids, i + 1, r.err, r.st)
    ELSE st

\* Returns [tab, feature, st]: the TABFeature (<<>> for NULL), the argument
\* feature after the call (the loop works on a clone, so it is as before)
\* and the layer.
CreateTABFeature(poFeature, st) ==
    LET poGeom == poFeature.poGeom
        eGType == IF poGeom # <<>> THEN poGeom[1].eType
                  ELSE [base |-> "wkbNone", b25D |-> FALSE]
        variant == TABVariant(wkbFlatten(eGType))
    IN  IF variant = "none"
        THEN [tab |-> <<>>, feature |-> poFeature,
              st |-> Decompose(poFeature, poGeom[1].kids, 1, OGRERR_NONE, st)]
        ELSE [tab |-> << [variant |-> variant,
                          poGeom |-> poGeom,
                          fields |-> poFeature.fields,
                          nFID |-> poFeature.nFID] >>,
              feature |-> poFeature,
              st |-> st]

\* Returns [err, feature, st]: the OGRErr, the argument feature after the
\* call and the layer.
ICreateFeature_SetsFIDOnError(poFeature, st) ==
    LET m == CreateTABFeature(poFeature, st)
    IN  IF m.tab = <<>>
        THEN [err |-> OGRERR_NONE, feature |-> m.feature, st |-> m.st]
        ELSE LET answer == Head(m.st.script)
                 st1 == [log |-> Append(m.st.log,
                                        [tab |-> m.tab[1], bOK |-> answer # 0]),
                         script |-> Tail(m.st.script)]
             IN  [err |-> IF answer # 0 THEN OGRERR_NONE ELSE OGRERR_FAILURE,
                  feature |-> [m.feature EXCEPT !.nFID = answer],
                  st |-> st1]

ICreateFeature(poFeature, st) ==
    LET m == CreateTABFeature(poFeature, st)
    IN  IF m.tab = <<>>      \* MultiGeometry
        THEN [err |-> OGRERR_NONE, feature |-> m.feature, st |-> m.st]
        ELSE LET answer == Head(m.st.script)
                 st1 == [log |-> Append(m.st.log,
                                        [tab |-> m.tab[1], bOK |-> answer # 0]),
                         script |-> Tail(m.st.script)]
             IN  IF answer # 0
                 THEN [err |-> OGRERR_NONE,
                       feature |-> [m.feature EXCEPT !.nFID = answer],
                       st |-> st1]
                 ELSE [err |-> OGRERR_FAILURE, feature |-> m.feature, st |-> st1]

(***************************************************************************)
(* Specification of ICreateFeature: Init draws the caller's feature and    *)
(* the answers of the layer, the one action is the top-level call.         *)
(***************************************************************************)
MaxPoints == 3          \* points of a MultiPoint
MaxId == 2              \* distinct point coordinates
MaxKids == 2            \* members of a GeometryCollection

\* The sequences over S of length n, and of length at most n.
SeqsOfLen(S, n) == [1 .. n -> S]

SeqsUpTo(S, n) == UNION {SeqsOfLen(S, k) : k \in 0 .. n}

SimpleBases ==
    {"wkbUnknown", "wkbPoint", "wkbLineString", "wkbPolygon",
     "wkbMultiLineString", "wkbMultiPolygon", "wkbCircularString"}

SimpleGeoms == {Geom(b, z, 1, <<>>) : b \in SimpleBases, z \in BOOLEAN}

MultiPoints == {MultiPoint(ids) : ids \in SeqsUpTo(1 .. MaxId, MaxPoints)}

\* What a GeometryCollection of the input may hold.
KidGeoms ==
    {Point(1), Point(2), Geom("wkbLineString", FALSE, 3, <<>>),
     MultiPoint(<<>>), MultiPoint(<<1, 2>>),
     GeometryCollection(<<Point(1)>>),
     GeometryCollection(<<MultiPoint(<<2, 1>>), Point(2)>>)}

Collections ==
    {GeometryCollection(kids) : kids \in SeqsUpTo(KidGeoms, MaxKids)}
    \cup {Geom("wkbGeometryCollection", TRUE, 0, <<Point(1), Point(2)>>),
          Geom("wkbMultiPoint", TRUE, 0, <<Point(2), Point(1)>>)}

InputGeoms == SimpleGeoms \cup MultiPoints \cup Collections

RECURSIVE LeafCount(_)
RECURSIVE SumLeaves(_, _)
SumLeaves(kids, i) ==
    IF i > Len(kids) THEN 0 ELSE LeafCount(kids[i]) + SumLeaves(kids, i + 1)

\* The number of TABFeatures a geometry can give rise to.
LeafCount(g) ==
    IF TABVariant(wkbFlatten(g.eType)) = "none" THEN SumLeaves(g.kids, 1) ELSE 1

\* Answers of CreateFeature(TABFeature): 0 is an error, otherwise the FID.
PersistAnswers == {0, 11}

InputFIDs == {OGRNullFID, 7}

InitFeature ==
    /\ pc = "start"
    /\ RelationsIdle
    /\ FieldIdle
    /\ SchemaIdle
    /\ \E fid \in InputFIDs, g \in {<<>>} \cup {<<x>> : x \in InputGeoms} :
          /\ oFeature = [nFID |-> fid, poGeom |-> g, fields |-> <<"v1", "v2">>]
          /\ persistScript \in
                 SeqsOfLen(PersistAnswers,
                           IF g = <<>> THEN 1 ELSE LeafCount(g[1]))
    /\ submitted = <<>>
    /\ eErr = OGRERR_NONE
    /\ oTABFeature = <<>>

CallICreateFeature ==
    /\ pc = "start"
    /\ LET st0 == [log |-> <<>>, script |-> persistScript]
           r == ICreateFeature(oFeature, st0)
       IN  /\ eErr' = r.err
           /\ oFeature' = r.feature
           /\ submitted' = r.st.log
           /\ oTABFeature' = CreateTABFeature(oFeature, st0).tab
    /\ pc' = "done"
    /\ UNCHANGED <<persistScript, fieldVars, schemaVars, relVars>>

NextFeature == CallICreateFeature

SpecFeature == InitFeature /\ [][NextFeature]_vars

(***************************************************************************)
(* OGRNASDataSource::TranslateNASSchema.  A C string is the sequence of    *)
(* its characters.                                                         *)
(***************************************************************************)
apszURNNames ==
    << <<<<"D", "E", "_", "D", "H", "D", "N", "_", "3", "G", "K", "2", "_", "*">>, <<"E", "P", "S", "G", ":", "3", "1", "4", "6", "6">>>>,
       <<<<"D", "E", "_", "D", "H", "D", "N", "_", "3", "G", "K", "3", "_", "*">>, <<"E", "P", "S", "G", ":", "3", "1", "4", "6", "7">>>>,
       <<<<"E", "T", "R", "S", "8", "9", "_", "U", "T", "M", "3", "2">>, <<"E", "P", "S", "G", ":", "2", "5", "8", "3", "2">>>>,
       <<<<"E", "T", "R", "S", "8", "9", "_", "U", "T", "M", "3", "3">>, <<"E", "P", "S", "G", ":", "2", "5", "8", "3", "3">>>> >>

LowerCase == <<"a", "b", "c", "d", "e", "f", "g", "h", "i", "j", "k", "l", "m", "n", "o", "p", "q", "r", "s", "t", "u", "v", "w", "x", "y", "z">>
UpperCase == <<"A", "B", "C", "D", "E", "F", "G", "H", "I", "J", "K", "L", "M", "N", "O", "P", "Q", "R", "S", "T", "U", "V", "W", "X", "Y", "Z">>

toupperTable ==
    [c \in {LowerCase[i] : i \in 1 .. Len(LowerCase)} |->
        UpperCase[CHOOSE i \in 1 .. Len(LowerCase) : LowerCase[i] = c]]

toupper(c) == IF c \in DOMAIN toupperTable THEN toupperTable[c] ELSE c

\* The character at a 1-based position of a C string; the terminating NUL
\* past its end.
CharAt(str, i) == IF i <= Len(str) THEN str[i] ELSE "NUL"

\* strrchr(str, ':'): the position of the last colon, 0 for NULL.
strrchr(str, c) ==
    IF \E i \in 1 .. Len(str) : str[i] = c
    THEN CHOOSE i \in 1 .. Len(str) :
             str[i] = c /\ \A j \in (i + 1) .. Len(str) : str[j] # c
    ELSE 0

\* EQUALN(a, b, n): strncasecmp(a, b, n) == 0; the comparison ends with the
\* first NUL.
EQUALN(a, b, n) ==
    \A i \in 1 .. Min(n, Min(Len(a), Len(b)) + 1) :
        toupper(CharAt(a, i)) = toupper(CharAt(b, i))

\* EQUAL(a, b): strcasecmp(a, b) == 0.
EQUAL(a, b) ==
    /\ Len(a) = Len(b)
    /\ \A i \in 1 .. Len(a) : toupper(a[i]) = toupper(b[i])

\* STARTS_WITH_CI(a, b): strncasecmp(a, b, strlen(b)) == 0.
STARTS_WITH_CI(a, b) == EQUALN(a, b, Len(b))

\* The loop over apszURNNames from entry i on: pszSRSName is overwritten by
\* the code of every entry that pszHandle matches; the loop does not stop
\* at a match.
RECURSIVE LookupURN(_, _, _)
LookupURN_StarCompared(pszHandle, pszSRSName, i) ==
    IF i > Len(apszURNNames) THEN pszSRSName
    ELSE LET pszTarget == apszURNNames[i][1]
             nTLen == Len(pszTarget)
             bMatch == IF pszTarget[nTLen] = "*"
                       THEN EQUALN(pszTarget, pszHandle, nTLen)
                       ELSE EQUAL(pszTarget, pszHandle)
         IN  LookupURN(pszHandle,
                       IF bMatch THEN apszURNNames[i][2] ELSE pszSRSName,
                       i + 1)

LookupURN(pszHandle, pszSRSName, i) ==
    IF i > Len(apszURNNames) THEN pszSRSName
    ELSE LET pszTarget == apszURNNames[i][1]
             nTLen == Len(pszTarget)
             bMatch == IF pszTarget[nTLen] = "*"
                       THEN EQUALN(pszTarget, pszHandle, nTLen - 1)
                       ELSE EQUAL(pszTarget, pszHandle)
         IN  LookupURN(pszHandle,
                       IF bMatch THEN apszURNNames[i][2] ELSE pszSRSName,
                       i + 1)

\* The geometry type of the layer.
ResolveGeometryType_NoCountAsZero(poClass) ==
    IF Len(poClass.geomProps) # 0
    THEN IF poClass.nFeatureCount <= 0
         THEN "wkbUnknown"
         ELSE poClass.geomProps[1]
    ELSE "wkbNone"

ResolveGeometryType(poClass) ==
    IF Len(poClass.geomProps) # 0
    THEN IF poClass.nFeatureCount = 0
         THEN "wkbUnknown"
         ELSE poClass.geomProps[1]
    ELSE "wkbNone"

\* The string handed to SetFromUserInput: <<>> when none is (no SRS name,
\* or no colon in it), <<str>> otherwise.
SRSUserInput(poClass) ==
    IF poClass.pszSRSName = <<>> THEN <<>>
    ELSE LET pszSRSName == poClass.pszSRSName[1]
             nColon == strrchr(pszSRSName, ":")
         IN  IF nColon = 0 THEN <<>>
             ELSE << LookupURN(SubSeq(pszSRSName, nColon + 1, Len(pszSRSName)),
                               pszSRSName, 1) >>

\* The OGRFieldType of a GML property type.
FieldTypeOf(eGMLType) ==
    CASE eGMLType = "GMLPT_Untyped" -> "OFTString"
      [] eGMLType = "GMLPT_String" -> "OFTString"
      [] eGMLType = "GMLPT_Integer" -> "OFTInteger"
      [] eGMLType = "GMLPT_Real" -> "OFTReal"
      [] eGMLType = "GMLPT_StringList" -> "OFTStringList"
      [] eGMLType = "GMLPT_IntegerList" -> "OFTIntegerList"
      [] eGMLType = "GMLPT_RealList" -> "OFTRealList"
      [] OTHER -> "OFTString"

\* The loop body with the "ogr:" prefix compared letter case and all.
TranslateProperty_CaseSensitivePrefix(poProperty) ==
    [name |-> IF /\ Len(poProperty.name) >= 4
                 /\ SubSeq(poProperty.name, 1, 4) = <<"o", "g", "r", ":">>
              THEN SubSeq(poProperty.name, 5, Len(poProperty.name))
              ELSE poProperty.name,
     eType |-> FieldTypeOf(poProperty.eType),
     nWidth |-> IF poProperty.nWidth > 0 THEN poProperty.nWidth ELSE 0]

\* The body of the loop over the properties: one OGRFieldDefn.
TranslateProperty(poProperty) ==
    [name |-> IF STARTS_WITH_CI(poProperty.name, <<"o", "g", "r", ":">>)
              THEN SubSeq(poProperty.name, 5, Len(poProperty.name))
              ELSE poProperty.name,
     eType |-> FieldTypeOf(poProperty.eType),
     nWidth |-> IF poProperty.nWidth > 0 THEN poProperty.nWidth ELSE 0]

\* TranslateNASSchema with a failed SetFromUserInput ending the translation
\* before the properties are added.
TranslateNASSchema_FailedSRSSkipsFields(poClass, bSRSOk) ==
    LET eGType == ResolveGeometryType(poClass)
        input == SRSUserInput(poClass)
        poSRS == IF input # <<>> /\ bSRSOk THEN input ELSE <<>>
    IN  [layer |-> [name |-> poClass.name,
                    poSRS |-> poSRS,
                    eGType |-> eGType,
                    fields |-> IF input # <<>> /\ ~bSRSOk THEN <<>>
                               ELSE [iField \in 1 .. Len(poClass.props) |->
                                       TranslateProperty(poClass.props[iField])]],
         srsInputs |-> input]

\* The whole call.  bSRSOk is the answer of SetFromUserInput, should it be
\* called.  The result is the layer and the strings SetFromUserInput got.
TranslateNASSchema(poClass, bSRSOk) ==
    LET eGType == ResolveGeometryType(poClass)
        input == SRSUserInput(poClass)
        poSRS == IF input # <<>> /\ bSRSOk THEN input ELSE <<>>
    IN  [layer |-> [name |-> poClass.name,
                    poSRS |-> poSRS,
                    eGType |-> eGType,
                    fields |-> [iField \in 1 .. Len(poClass.props) |->
                                    TranslateProperty(poClass.props[iField])]],
         srsInputs |-> input]

(***************************************************************************)
(* Specification of TranslateNASSchema: Init draws the feature class, the  *)
(* one action translates it.                                               *)
(***************************************************************************)
MaxGeomProps == 2       \* geometry properties of a class
MaxProps == 2           \* properties of a class

GeomPropTypes == {"wkbPoint", "wkbPolygon", "wkbUnknown"}

FeatureCounts == {-1, 0, 1, 5}

SRSNames ==
    {<<"u", "r", "n", ":", "a", "d", "v", ":", "c", "r", "s", ":", "D", "E", "_", "D", "H", "D", "N", "_", "3", "G", "K", "2", "_", "N", "W", "1", "0", "1">>,
     <<"u", "r", "n", ":", "a", "d", "v", ":", "c", "r", "s", ":", "D", "E", "_", "D", "H", "D", "N", "_", "3", "G", "K", "3", "_", "H", "E", "1", "0", "0">>,
     <<"u", "r", "n", ":", "a", "d", "v", ":", "c", "r", "s", ":", "E", "T", "R", "S", "8", "9", "_", "U", "T", "M", "3", "2">>,
     <<"u", "r", "n", ":", "a", "d", "v", ":", "c", "r", "s", ":", "E", "T", "R", "S", "8", "9", "_", "U", "T", "M", "3", "3">>,
     <<"u", "r", "n", ":", "a", "d", "v", ":", "c", "r", "s", ":", "e", "t", "r", "s", "8", "9", "_", "u", "t", "m", "3", "2">>,
     <<"u", "r", "n", ":", "a", "d", "v", ":", "c", "r", "s", ":", "E", "T", "R", "S", "8", "9", "_", "U", "T", "M", "3", "2", "N">>,
     <<"u", "r", "n", ":", "a", "d", "v", ":", "c", "r", "s", ":", "E", "T", "R", "S", "8", "9", "_", "U", "T", "M", "3">>,
     <<"u", "r", "n", ":", "a", "d", "v", ":", "c", "r", "s", ":", "D", "E", "_", "D", "H", "D", "N", "_", "3", "G", "K", "2", "_">>,
     <<"u", "r", "n", ":", "a", "d", "v", ":", "c", "r", "s", ":", "D", "E", "_", "D", "H", "D", "N", "_", "3", "G", "K", "2">>,
     <<"u", "r", "n", ":", "a", "d", "v", ":", "c", "r", "s", ":", "d", "e", "_", "d", "h", "d", "n", "_", "3", "g", "k", "3", "_", "x">>,
     <<"u", "r", "n", ":", "a", "d", "v", ":", "c", "r", "s", ":", "D", "E", "_", "D", "H", "D", "N", "_", "3", "G", "K", "2", "_", "*">>,
     <<"E", "P", "S", "G", ":", "4", "3", "2", "6">>,
     <<"E", "P", "S", "G", ":", "2", "5", "8", "3", "2">>,
     <<"E", "T", "R", "S", "8", "9", "_", "U", "T", "M", "3", "2">>,
     <<"D", "E", "_", "D", "H", "D", "N", "_", "3", "G", "K", "2", "_", "N", "W", "1", "0", "1">>,
     <<"W", "G", "S", "8", "4">>,
     <<>>,
     <<"u", "r", "n", ":">>,
     <<":", "E", "T", "R", "S", "8", "9", "_", "U", "T", "M", "3", "3">>}

GMLPropertyTypes ==
    {"GMLPT_Untyped", "GMLPT_String", "GMLPT_Integer", "GMLPT_Real",
     "GMLPT_Complex", "GMLPT_StringList", "GMLPT_IntegerList",
     "GMLPT_RealList", "GMLPT_FeatureProperty"}

PropertyNamesAndWidths ==
    {<<<<"g", "m", "l", "_", "i", "d">>, 0>>, <<<<"o", "g", "r", ":", "x">>, 8>>, <<<<"O", "G", "R", ":", "y">>, -1>>,
     <<<<"o", "g", "r", "z">>, 8>>}

PropertyDefns ==
    {[name |-> nw[1], eType |-> t, nWidth |-> nw[2]] :
        nw \in PropertyNamesAndWidths, t \in GMLPropertyTypes}

ClassName == <<"A", "X", "_", "F", "l", "u", "r", "s", "t", "u", "e", "c", "k">>

\* Init draws classes that vary in geometry, feature count and SRS name
\* (with FixedProps), and classes that vary in their properties (with
\* FixedSRSName).
FixedProps ==
    << [name |-> <<"g", "m", "l", "_", "i", "d">>, eType |-> "GMLPT_String", nWidth |-> 16] >>

FixedSRSName == <<"u", "r", "n", ":", "a", "d", "v", ":", "c", "r", "s", ":", "E", "T", "R", "S", "8", "9", "_", "U", "T", "M", "3", "2">>

InitSchema ==
    /\ pc = "start"
    /\ RelationsIdle
    /\ FieldIdle
    /\ FeatureIdle
    /\ \/ \E g \in SeqsUpTo(GeomPropTypes, MaxGeomProps), n \in FeatureCounts,
             srs \in {<<>>} \cup {<<x>> : x \in SRSNames} :
             oClass = [name |-> ClassName, geomProps |-> g, nFeatureCount |-> n,
                       pszSRSName |-> srs, props |-> FixedProps]
       \/ \E k \in 0 .. MaxProps : \E ps \in SeqsOfLen(PropertyDefns, k) :
             oClass = [name |-> ClassName, geomProps |-> <<"wkbPolygon">>,
                       nFeatureCount |-> 1, pszSRSName |-> <<FixedSRSName>>,
                       props |-> ps]
    /\ oLayer = <<>>
    /\ srsInputs = <<>>

CallTranslateNASSchema(bSRSOk) ==
    /\ pc = "start"
    /\ LET r == TranslateNASSchema(oClass, bSRSOk)
       IN  /\ oLayer' = <<r.layer>>
           /\ srsInputs' = r.srsInputs
    /\ pc' = "done"
    /\ UNCHANGED <<oClass, fieldVars, featVars, relVars>>

NextSchema == \E bSRSOk \in BOOLEAN : CallTranslateNASSchema(bSRSOk)

SpecSchema == InitSchema /\ [][NextSchema]_vars

(***************************************************************************)
(* OGRNASDataSource::PopulateRelations.  A GMLFeature is                   *)
(* [nGMLIdIndex, properties, papszOBProperties]: nGMLIdIndex is what       *)
(* GetClass()->GetPropertyIndex("gml_id") answers (-1: no such property),  *)
(* properties are the feature's GMLProperty values by index, each with its *)
(* papszSubProperties (nSubProperties is their number), and                *)
(* papszOBProperties is the list of "name=value" strings.  The reader is   *)
(* [features, iNext], the relation layer [relations, bPopulated].          *)
(***************************************************************************)
OIDPrefix == <<"u", "r", "n", ":", "a", "d", "v", ":", "o", "i", "d", ":">>

OIDPrefixLen == 12

\* str without its leading blanks and tabs.
RECURSIVE SkipBlanks(_)
SkipBlanks(str) ==
    IF Len(str) > 0 /\ str[1] \in {" ", "\t"} THEN SkipBlanks(Tail(str))
    ELSE str

\* str without its trailing blanks and tabs.
RECURSIVE TrimBlanks(_)
TrimBlanks(str) ==
    IF Len(str) > 0 /\ str[Len(str)] \in {" ", "\t"}
    THEN TrimBlanks(SubSeq(str, 1, Len(str) - 1))
    ELSE str

\* CPLParseNameValue(pszNameValue, &pszKey): the string is split at its
\* first '=' or ':'; the key is what precedes it without trailing blanks,
\* the value what follows it without leading blanks.  Both are NULL (<<>>)
\* when the string has no separator.
CPLParseNameValue(pszNameValue) ==
    LET seps == {i \in 1 .. Len(pszNameValue) : pszNameValue[i] \in {"=", ":"}}
    IN  IF seps = {} THEN [pszKey |-> <<>>, pszValue |-> <<>>]
        ELSE LET i == CHOOSE k \in seps : \A j \in seps : k <= j
             IN  [pszKey |-> << TrimBlanks(SubSeq(pszNameValue, 1, i - 1)) >>,
                  pszValue |-> << SkipBlanks(SubSeq(pszNameValue, i + 1,
                                                    Len(pszNameValue))) >>]

\* GMLFeature::GetProperty(i): NULL (<<>>) out of range.
GetProperty(poFeature, i) ==
    IF i >= 0 /\ i < Len(poFeature.properties)
    THEN << poFeature.properties[i + 1] >>
    ELSE <<>>

\* OGRNASRelationLayer::AddRelation: one more record at the end.
AddRelation(layer, pszFromID, pszType, pszToID) ==
    [layer EXCEPT !.relations =
        Append(@, [source |-> pszFromID, name |-> pszType, target |-> pszToID])]

\* OGRNASRelationLayer::MarkRelationsPopulated.
MarkRelationsPopulated(layer) == [layer EXCEPT !.bPopulated = TRUE]

\* GMLReader::ResetReading.
ResetReading(reader) == [reader EXCEPT !.iNext = 1]

\* GMLReader::NextFeature: the feature at the reading position (<<>>: NULL
\* at the end of the stream) and the reader moved past it.
ReaderNextFeature(reader) ==
    IF reader.iNext <= Len(reader.features)
    THEN [poFeature |-> << reader.features[reader.iNext] >>,
          reader |-> [reader EXCEPT !.iNext = @ + 1]]
    ELSE [poFeature |-> <<>>, reader |-> reader]

\* The body of the loop over the OB properties with a record emitted for
\* any feature whose gml_id has a value, not only for exactly one.
RelateOBProperty_AnyIdCount(poFeature, i, layer) ==
    LET nGMLIdIndex == poFeature.nGMLIdIndex
        psGMLId == IF nGMLIdIndex >= 0 THEN GetProperty(poFeature, nGMLIdIndex)
                   ELSE <<>>
        parsed == CPLParseNameValue(poFeature.papszOBProperties[i])
        pszValue == parsed.pszValue[1]
    IN  IF /\ STARTS_WITH_CI(pszValue, OIDPrefix)
           /\ psGMLId # <<>>
           /\ Len(psGMLId[1].papszSubProperties) >= 1
        THEN AddRelation(layer, psGMLId[1].papszSubProperties[1],
                         parsed.pszKey[1],
                         SubSeq(pszValue, OIDPrefixLen + 1, Len(pszValue)))
        ELSE layer

\* The body of the loop over the OB properties, for the i-th of them.
RelateOBProperty(poFeature, i, layer) ==
    LET nGMLIdIndex == poFeature.nGMLIdIndex
        psGMLId == IF nGMLIdIndex >= 0 THEN GetProperty(poFeature, nGMLIdIndex)
                   ELSE <<>>
        parsed == CPLParseNameValue(poFeature.papszOBProperties[i])
        pszValue == parsed.pszValue[1]
    IN  IF /\ STARTS_WITH_CI(pszValue, OIDPrefix)
           /\ psGMLId # <<>>
           /\ Len(psGMLId[1].papszSubProperties) = 1
        THEN AddRelation(layer, psGMLId[1].papszSubProperties[1],
                         parsed.pszKey[1],
                         SubSeq(pszValue, OIDPrefixLen + 1, Len(pszValue)))
        ELSE layer

\* The loop over the OB properties of one feature, from the i-th on.
RECURSIVE RelateOBProperties(_, _, _)
RelateOBProperties(poFeature, i, layer) ==
    IF i > Len(poFeature.papszOBProperties) THEN layer
    ELSE RelateOBProperties(poFeature, i + 1,
                            RelateOBProperty(poFeature, i, layer))

(***************************************************************************)
(* Specification of PopulateRelations: Init draws the feature stream and   *)
(* where the reader stands in it; a call is the steps Begin, one Feature   *)
(* step per feature of the stream, and End.  The method has no guard, so   *)
(* a call may follow a call.                                               *)
(***************************************************************************)
MaxFeatures == 2        \* features of the stream
MaxOBProps == 2         \* OB properties of a feature
MaxCalls == 2           \* calls of PopulateRelations

OBStrings ==
    {<<"i", "s", "t", "T", "e", "i", "l", "V", "o", "n", "=", "u", "r", "n", ":", "a", "d", "v", ":", "o", "i", "d", ":", "D", "E", "B", "W", "0", "0", "2">>,
     <<"g", "e", "h", "o", "e", "r", "t", "Z", "u", "=", "U", "R", "N", ":", "a", "d", "v", ":", "O", "I", "D", ":", "D", "E", "B", "W", "0", "0", "3">>,
     <<"h", "a", "t", "=", "u", "r", "n", ":", "a", "d", "v", ":", "o", "i", "d", ":">>,
     <<"z", "e", "i", "g", "t", "A", "u", "f", "=", "u", "r", "n", ":", "a", "d", "v", ":", "u", "u", "i", "d", ":", "D", "E", "B", "W", "0", "0", "4">>,
     <<"a", "r", "t", "=", "u", "r", "n", ":", "a", "d", "v", ":", "o", "i", "d">>,
     <<"i", "n", "v", "=", "D", "E", "B", "W", "0", "0", "1">>,
     <<"a", "n", " ", "=", " ", "u", "r", "n", ":", "a", "d", "v", ":", "o", "i", "d", ":", "D", "E", "B", "W", "0", "0", "5">>}

GMLProperty(values) == [papszSubProperties |-> values]

\* The ways a feature has, or has not, a gml_id.
GMLIdCases ==
    {[nGMLIdIndex |-> -1, properties |-> <<>>],
     [nGMLIdIndex |-> 0, properties |-> <<>>],
     [nGMLIdIndex |-> 0, properties |-> << GMLProperty(<<>>) >>],
     [nGMLIdIndex |-> 0, properties |-> << GMLProperty(<<"DEBW001">>) >>],
     [nGMLIdIndex |-> 0, properties |-> << GMLProperty(<<"DEBW001", "DEBW009">>) >>],
     [nGMLIdIndex |-> 1, properties |-> << GMLProperty(<<"Flur 7">>),
                                           GMLProperty(<<"DEBW002">>) >>]}

GMLFeature(id, ob) ==
    [nGMLIdIndex |-> id.nGMLIdIndex, properties |-> id.properties,
     papszOBProperties |-> ob]

\* The features that streams of several features are made of.
StreamFeatures ==
    {GMLFeature([nGMLIdIndex |-> 0, properties |-> << GMLProperty(<<"DEBW001">>) >>],
                << <<"i", "s", "t", "T", "e", "i", "l", "V", "o", "n", "=", "u", "r", "n", ":", "a", "d", "v", ":", "o", "i", "d", ":", "D", "E", "B", "W", "0", "0", "2">> >>),
     GMLFeature([nGMLIdIndex |-> 0, properties |-> << GMLProperty(<<"DEBW002">>) >>],
                << <<"g", "e", "h", "o", "e", "r", "t", "Z", "u", "=", "u", "r", "n", ":", "a", "d", "v", ":", "o", "i", "d", ":", "D", "E", "B", "W", "0", "0", "1">>,
                   <<"h", "a", "t", "=", "u", "r", "n", ":", "a", "d", "v", ":", "o", "i", "d", ":", "D", "E", "B", "W", "0", "0", "5">> >>),
     GMLFeature([nGMLIdIndex |-> 0, properties |-> << GMLProperty(<<"DEBW003", "DEBW004">>) >>],
                << <<"i", "s", "t", "T", "e", "i", "l", "V", "o", "n", "=", "u", "r", "n", ":", "a", "d", "v", ":", "o", "i", "d", ":", "D", "E", "B", "W", "0", "0", "2">> >>),
     GMLFeature([nGMLIdIndex |-> 0, properties |-> << GMLProperty(<<"DEBW005">>) >>],
                <<>>)}

InitRelations ==
    /\ pc = "idle"
    /\ FieldIdle
    /\ FeatureIdle
    /\ SchemaIdle
    /\ \E fs \in {<< GMLFeature(id, ob) >> :
                     id \in GMLIdCases, ob \in SeqsUpTo(OBStrings, MaxOBProps)}
                 \cup SeqsUpTo(StreamFeatures, MaxFeatures) :
          \E n \in 1 .. (Len(fs) + 1) :
             oReader = [features |-> fs, iNext |-> n]
    /\ oRelationLayer = [relations |-> <<>>, bPopulated |-> FALSE]
    /\ nCalls = 0
    /\ nConsumed = 0
    /\ nMarked = 0

\* PopulateRelations entered without the reader being reset.
PopulateRelations_Begin_NoReset ==
    /\ pc = "idle"
    /\ nCalls < MaxCalls
    /\ nCalls' = nCalls + 1
    /\ nConsumed' = 0
    /\ pc' = "loop"
    /\ UNCHANGED <<oReader, oRelationLayer, nMarked, fieldVars, featVars,
                   schemaVars>>

\* PopulateRelations returning at once when the layer is marked populated.
PopulateRelations_Begin_Guarded ==
    /\ pc = "idle"
    /\ nCalls < MaxCalls
    /\ nCalls' = nCalls + 1
    /\ IF oRelationLayer.bPopulated
       THEN UNCHANGED <<pc, oReader, nConsumed>>
       ELSE /\ oReader' = ResetReading(oReader)
            /\ nConsumed' = 0
            /\ pc' = "loop"
    /\ UNCHANGED <<oRelationLayer, nMarked, fieldVars, featVars, schemaVars>>

\* PopulateRelations is entered: the reader is reset.
PopulateRelations_Begin ==
    /\ pc = "idle"
    /\ nCalls < MaxCalls
    /\ oReader' = ResetReading(oReader)
    /\ nCalls' = nCalls + 1
    /\ nConsumed' = 0
    /\ pc' = "loop"
    /\ UNCHANGED <<oRelationLayer, nMarked, fieldVars, featVars, schemaVars>>

\* One turn of the while loop: NextFeature returns a feature, whose OB
\* properties are gone through.
PopulateRelations_Feature ==
    /\ pc = "loop"
    /\ LET r == ReaderNextFeature(oReader)
       IN  /\ r.poFeature # <<>>
           /\ oReader' = r.reader
           /\ oRelationLayer' = RelateOBProperties(r.poFeature[1], 1, oRelationLayer)
    /\ nConsumed' = nConsumed + 1
    /\ UNCHANGED <<pc, nCalls, nMarked, fieldVars, featVars, schemaVars>>

\* NextFeature returns NULL: the loop ends, the relation layer is marked
\* and PopulateRelations returns.
PopulateRelations_End ==
    /\ pc = "loop"
    /\ LET r == ReaderNextFeature(oReader)
       IN  /\ r.poFeature = <<>>
           /\ oReader' = r.reader
    /\ oRelationLayer' = MarkRelationsPopulated(oRelationLayer)
    /\ nMarked' = nMarked + 1
    /\ pc' = "idle"
    /\ UNCHANGED <<nCalls, nConsumed, fieldVars, featVars, schemaVars>>

NextRelations ==
    \/ PopulateRelations_Begin
    \/ PopulateRelations_Feature
    \/ PopulateRelations_End

SpecRelations == InitRelations /\ [][NextRelations]_vars

(***************************************************************************)
(* Specification of GetTABType as a function: Init draws the field         *)
(* definition, the one action calls GetTABType on it.                      *)
(***************************************************************************)
InputWidths ==
    (0 .. MaxWidth) \cup ((CharMaxWidth - CharSlack) .. (CharMaxWidth + CharSlack))

InputPrecisions == (0 - NegPrecision) .. MaxPrecision

\* Content of the out-parameters before the call (the caller's values).
PriorOut == [eTABType |-> "prior", nWidth |-> -1, nPrecision |-> -1]

InitTABType ==
    /\ pc = "start"
    /\ RelationsIdle
    /\ oField \in [name : {"f"}, eType : OGRFieldTypes,
                    nWidth : InputWidths, nPrecision : InputPrecisions]
    /\ tabOut = PriorOut
    /\ nRet = 0
    /\ m_fields = <<>>
    /\ bAddOK = FALSE
    /\ nUnsupported = 0
    /\ FeatureIdle
    /\ SchemaIdle

CallGetTABType ==
    /\ pc = "start"
    /\ LET r == GetTABType(oField, tabOut)
       IN  /\ nRet' = r.ret
           /\ tabOut' = [eTABType |-> r.eTABType, nWidth |-> r.nWidth,
                         nPrecision |-> r.nPrecision]
    /\ pc' = "done"
    /\ UNCHANGED <<oField, m_fields, bAddOK, nUnsupported, featVars, schemaVars,
                   relVars>>

NextTABType == CallGetTABType

SpecTABType == InitTABType /\ [][NextTABType]_vars

(***************************************************************************)
(* Specification of CreateField on one layer: a sequence of CreateField    *)
(* calls, each with a field definition and AddFieldNative's answer.        *)
(***************************************************************************)
LayerFieldTypes == OGRFieldTypes
LayerFieldDefns ==
    [name : {"a", "b"}, eType : LayerFieldTypes, nWidth : {0}, nPrecision : {0}]

InitField ==
    /\ pc = "idle"
    /\ RelationsIdle
    /\ oField = [name |-> "none", eType |-> "OFTInteger", nWidth |-> 0,
                  nPrecision |-> 0]
    /\ tabOut = CreateFieldLocals
    /\ nRet = OGRERR_NONE
    /\ m_fields = <<>>
    /\ bAddOK = FALSE
    /\ nUnsupported = 0
    /\ FeatureIdle
    /\ SchemaIdle

CallCreateField(field, bAccept) ==
    /\ pc = "idle"
    /\ Len(m_fields) + nUnsupported < MaxFields
    /\ LET r == CreateField(m_fields, field, bAccept)
       IN  /\ nRet' = r.err
           /\ tabOut' = r.out
           /\ m_fields' = r.fields
    /\ nUnsupported' = IF GetTABType(field, CreateFieldLocals).ret < 0
                       THEN nUnsupported + 1 ELSE nUnsupported
    /\ oField' = field
    /\ bAddOK' = bAccept
    /\ pc' = "idle"
    /\ UNCHANGED <<featVars, schemaVars, relVars>>

NextField == \E field \in LayerFieldDefns, bAccept \in BOOLEAN :
                 CallCreateField(field, bAccept)

SpecField == InitField /\ [][NextField]_vars

(***************************************************************************)
(* Claims about GetTABType and CreateField.                                *)
(***************************************************************************)
SupportedFieldTypes ==
    {"OFTInteger", "OFTReal", "OFTString", "OFTDate", "OFTTime", "OFTDateTime"}

IsDecimalInput(f) ==
    f.eType = "OFTReal" /\ ~(f.nWidth = 0 /\ f.nPrecision = 0)

\* C4: every Real field that is mapped to Decimal (width and precision not
\* both 0) is accepted, and the returned width is at most 20, the returned
\* precision at most 16, and width - precision at least 2.
C4_DecimalWithinLimits ==
    (pc = "done" /\ IsDecimalInput(oField)) =>
        /\ nRet = 0
        /\ tabOut.eTABType = "TABFDecimal"
        /\ tabOut.nWidth <= 20
        /\ tabOut.nPrecision <= 16
        /\ tabOut.nWidth - tabOut.nPrecision >= 2

\* A Real field of width 25 and precision 20 has been clamped to 20, 16.
C4_Witness ==
    /\ pc = "done"
    /\ oField.eType = "OFTReal" /\ oField.nWidth = 25 /\ oField.nPrecision = 20
    /\ tabOut = [eTABType |-> "TABFDecimal", nWidth |-> 20, nPrecision |-> 16]

\* The table of the claim C5, written out: native type and width per kind.
C5_Table(f) ==
    CASE f.eType = "OFTInteger" ->
           <<"TABFInteger", IF f.nWidth = 0 THEN 12 ELSE f.nWidth>>
      [] f.eType = "OFTReal" -> <<"TABFFloat", 32>>
      [] f.eType = "OFTDate" -> <<"TABFDate", IF f.nWidth = 0 THEN 10 ELSE f.nWidth>>
      [] f.eType = "OFTTime" -> <<"TABFTime", IF f.nWidth = 0 THEN 9 ELSE f.nWidth>>
      [] f.eType = "OFTDateTime" ->
           <<"TABFDateTime", IF f.nWidth = 0 THEN 19 ELSE f.nWidth>>
      [] f.eType = "OFTString" ->
           <<"TABFChar", IF f.nWidth = 0 \/ f.nWidth > 254 THEN 254 ELSE f.nWidth>>

\* C5: for every field of a supported kind that is not mapped to Decimal,
\* GetTABType succeeds and returns the native type and the width of the
\* table (default width when the width is 0, 254 for a String wider than
\* 254, the input width otherwise) and the input precision unchanged.
C5_NonDecimalTable ==
    (pc = "done" /\ oField.eType \in SupportedFieldTypes /\ ~IsDecimalInput(oField)) =>
        /\ nRet = 0
        /\ tabOut.eTABType = C5_Table(oField)[1]
        /\ tabOut.nWidth = C5_Table(oField)[2]
        /\ tabOut.nPrecision = oField.nPrecision

\* A String field of width 256 has been mapped to Char of width 254, its
\* precision as given.
C5_Witness ==
    /\ pc = "done"
    /\ oField.eType = "OFTString" /\ oField.nWidth = 256 /\ oField.nPrecision = 3
    /\ tabOut = [eTABType |-> "TABFChar", nWidth |-> 254, nPrecision |-> 3]

\* C6: a CreateField call on a field of an unsupported type (a list type)
\* returns failure, leaves the three out-parameters of GetTABType as they
\* were (unwritten) and adds no native field; and every CreateField call on
\* a field of a supported type that AddFieldNative accepts returns success
\* and appends exactly that field, whatever calls failed before it.
C6_Step ==
    IF oField'.eType \notin SupportedFieldTypes
    THEN /\ nRet' = OGRERR_FAILURE
         /\ tabOut' = CreateFieldLocals
         /\ m_fields' = m_fields
         /\ nUnsupported' = nUnsupported + 1
    ELSE bAddOK' =>
            /\ nRet' = OGRERR_NONE
            /\ Len(m_fields') = Len(m_fields) + 1
            /\ SubSeq(m_fields', 1, Len(m_fields)) = m_fields
            /\ m_fields'[Len(m_fields')].name = oField'.name
            /\ m_fields'[Len(m_fields')].eTABType = tabOut'.eTABType
            /\ tabOut'.eTABType # "uninitialised"

C6_UnsupportedFailsAlone == [][C6_Step]_vars

\* A list-typed field has been refused, and the CreateField call after it,
\* on a supported type, has added its field.
C6_Witness ==
    /\ nUnsupported = 1
    /\ oField.eType = "OFTString"
    /\ nRet = OGRERR_NONE
    /\ Len(m_fields) = 1
    /\ m_fields[1].eTABType = "TABFChar"

(***************************************************************************)
(* Claims about CreateTABFeature and ICreateFeature.                       *)
(***************************************************************************)
IsCollection(optGeom) ==
    /\ optGeom # <<>>
    /\ optGeom[1].eType.base \in {"wkbGeometryCollection", "wkbMultiPoint"}

AllSucceed(script, n) == \A i \in 1 .. n : script[i] # 0

\* C1: one ICreateFeature call on a feature whose geometry is a MultiPoint
\* of N points (N >= 0), every persistence call succeeding, hands exactly N
\* TABPoint features to the layer, the i-th carrying the i-th point alone
\* and the unassigned FID (OGRNullFID); the call returns OGRERR_NONE and
\* CreateTABFeature returns NULL.
C1_Step ==
    (/\ pc = "start" /\ pc' = "done"
     /\ oFeature.poGeom # <<>>
     /\ oFeature.poGeom[1].eType.base = "wkbMultiPoint"
     /\ AllSucceed(persistScript, Len(oFeature.poGeom[1].kids)))
    => LET points == oFeature.poGeom[1].kids
       IN  /\ eErr' = OGRERR_NONE
           /\ oTABFeature' = <<>>
           /\ Len(submitted') = Len(points)
           /\ \A i \in 1 .. Len(points) :
                 /\ submitted'[i].bOK
                 /\ submitted'[i].tab.variant = "TABPoint"
                 /\ submitted'[i].tab.poGeom = <<points[i]>>
                 /\ submitted'[i].tab.poGeom[1].eType.base = "wkbPoint"
                 /\ submitted'[i].tab.nFID = -1

C1_MultiPointFanOut == [][C1_Step]_vars

\* A MultiPoint of the points 2, 1, 2 of a feature with FID 7 has been
\* persisted as three features, in that order.
C1_Witness ==
    /\ pc = "done"
    /\ oFeature.nFID = 7
    /\ oFeature.poGeom = <<MultiPoint(<<2, 1, 2>>)>>
    /\ Len(submitted) = 3
    /\ \A i \in 1 .. 3 : submitted[i].bOK
    /\ submitted[1].tab.poGeom[1].nId = 2
    /\ submitted[2].tab.poGeom[1].nId = 1

\* C2: when the persistence of a child of a GeometryCollection or
\* MultiPoint feature fails, the top-level ICreateFeature call returns an
\* error, not success.
C2_FailurePropagates ==
    (/\ pc = "done"
     /\ IsCollection(oFeature.poGeom)
     /\ \E i \in 1 .. Len(submitted) : ~submitted[i].bOK)
    => eErr # OGRERR_NONE

\* C3: during one ICreateFeature call on a collection feature, nothing is
\* handed to the layer after a child's persistence has failed, at any
\* nesting level.
C3_SiblingsAborted ==
    (pc = "done" /\ IsCollection(oFeature.poGeom))
    => \A i \in 1 .. Len(submitted) :
          ~submitted[i].bOK => i = Len(submitted)

\* C7: ICreateFeature changes the caller's feature in one case only: when
\* CreateTABFeature returned a TABFeature and persisting it succeeded, its
\* FID becomes the FID the layer assigned.  When persisting fails, the
\* error is returned and the FID is as before; when CreateTABFeature
\* returned NULL, the call returns OGRERR_NONE and the feature keeps its
\* FID.  The geometry and the fields are as before in every case.
C7_Step ==
    (pc = "start" /\ pc' = "done")
    => /\ oFeature'.poGeom = oFeature.poGeom
       /\ oFeature'.fields = oFeature.fields
       /\ IF oTABFeature' = <<>>
          THEN eErr' = OGRERR_NONE /\ oFeature'.nFID = oFeature.nFID
          ELSE IF persistScript[1] # 0
               THEN eErr' = OGRERR_NONE /\ oFeature'.nFID = persistScript[1]
               ELSE eErr' # OGRERR_NONE /\ oFeature'.nFID = oFeature.nFID

C7_FIDWrittenOnSuccessOnly == [][C7_Step]_vars

\* A collection feature with FID 7 whose children were persisted (and got
\* FIDs of their own) still has FID 7 and its geometry.
C7_Witness ==
    /\ pc = "done"
    /\ oTABFeature = <<>>
    /\ Len(submitted) >= 2
    /\ submitted[1].bOK /\ submitted[2].bOK
    /\ oFeature.nFID = 7
    /\ oFeature.poGeom[1].eType.base = "wkbGeometryCollection"

\* The variant the claim C8 names for a feature's geometry.
C8_Table(optGeom) ==
    IF optGeom = <<>> THEN "TABFeature"
    ELSE LET base == optGeom[1].eType.base
         IN  CASE base = "wkbPoint" -> "TABPoint"
               [] base = "wkbPolygon" -> "TABRegion"
               [] base = "wkbMultiPolygon" -> "TABRegion"
               [] base = "wkbLineString" -> "TABPolyline"
               [] base = "wkbMultiLineString" -> "TABPolyline"
               [] base = "wkbGeometryCollection" -> "NULL"
               [] base = "wkbMultiPoint" -> "NULL"
               [] OTHER -> "TABFeature"

\* C8: CreateTABFeature selects the TABFeature sub-class from the flattened
\* geometry type alone (Point: TABPoint; Polygon, MultiPolygon: TABRegion;
\* LineString, MultiLineString: TABPolyline; GeometryCollection,
\* MultiPoint: NULL; no geometry or any other type: plain TABFeature), and
\* every non-NULL result has the FID of the input feature and a geometry
\* exactly when the input feature has one.
C8_Step ==
    (pc = "start" /\ pc' = "done")
    => IF C8_Table(oFeature.poGeom) = "NULL"
       THEN oTABFeature' = <<>>
       ELSE /\ oTABFeature' # <<>>
            /\ oTABFeature'[1].variant = C8_Table(oFeature.poGeom)
            /\ oTABFeature'[1].nFID = oFeature.nFID
            /\ (oTABFeature'[1].poGeom # <<>>) <=> (oFeature.poGeom # <<>>)

C8_VariantByFlatType == [][C8_Step]_vars

\* A 2.5D MultiPolygon feature with FID 7 has been mapped to a TABRegion
\* with FID 7 and a geometry.
C8_Witness ==
    /\ pc = "done"
    /\ oFeature.poGeom # <<>>
    /\ oFeature.poGeom[1].eType = [base |-> "wkbMultiPolygon", b25D |-> TRUE]
    /\ oTABFeature # <<>>
    /\ oTABFeature[1].variant = "TABRegion"
    /\ oTABFeature[1].nFID = 7
    /\ oTABFeature[1].poGeom # <<>>

(***************************************************************************)
(* Claims about TranslateNASSchema.                                        *)
(***************************************************************************)

\* C9: the layer's geometry type is wkbNone when the class declares no
\* geometry property (whatever its feature count), wkbUnknown when it
\* declares one and reports zero features, and the declared type of the
\* first geometry property otherwise; a class of zero features never gets
\* its declared type by way of the declaration.
C9_GeometryTypeResolved ==
    pc = "done" =>
        /\ oLayer[1].eGType =
              (IF Len(oClass.geomProps) = 0 THEN "wkbNone"
               ELSE IF oClass.nFeatureCount = 0 THEN "wkbUnknown"
               ELSE oClass.geomProps[1])
        /\ oClass.nFeatureCount = 0 => oLayer[1].eGType \in {"wkbNone", "wkbUnknown"}

\* A class of zero features that declares a Polygon geometry property has
\* been translated to a layer of unknown geometry type.
C9_Witness ==
    /\ pc = "done"
    /\ oClass.nFeatureCount = 0
    /\ Len(oClass.geomProps) >= 1 /\ oClass.geomProps[1] = "wkbPolygon"
    /\ oLayer[1].eGType = "wkbUnknown"

UpperOf(str) == [i \in 1 .. Len(str) |-> toupper(str[i])]

\* The trailing colon-delimited handle of an SRS name.
C10_Handle(name) ==
    LET colons == {i \in 1 .. Len(name) : name[i] = ":"}
        last == IF colons = {} THEN 0
                ELSE CHOOSE i \in colons : \A j \in colons : j <= i
    IN  SubSeq(name, last + 1, Len(name))

\* The table entries a handle matches: a plain entry as a whole, an entry
\* ending in '*' by its text before the '*'; letter case is not told apart.
C10_Matches(handle) ==
    {i \in 1 .. Len(apszURNNames) :
        LET target == apszURNNames[i][1]
            n == Len(target)
        IN  IF target[n] = "*"
            THEN /\ Len(handle) >= n - 1
                 /\ UpperOf(SubSeq(handle, 1, n - 1)) = UpperOf(SubSeq(target, 1, n - 1))
            ELSE UpperOf(handle) = UpperOf(target)}

\* The one string the claim C10 names for an SRS name.
C10_Expected(name) ==
    LET matches == C10_Matches(C10_Handle(name))
    IN  IF matches = {} THEN name
        ELSE apszURNNames[CHOOSE i \in matches : TRUE][2]

\* C10 as stated: whenever the class has an SRS name, exactly one string is
\* handed to SetFromUserInput, the alias code of the matched table entry or
\* the full SRS name when no entry matches.
C10_OneAttemptWheneverNamed ==
    (pc = "done" /\ oClass.pszSRSName # <<>>) =>
        srsInputs = <<C10_Expected(oClass.pszSRSName[1])>>

\* C10 as amended: whenever the class has an SRS name that contains a
\* colon, exactly one string is handed to SetFromUserInput, the alias code
\* of the table entry matched by the handle after the last colon or the
\* full SRS name when no entry matches; for an SRS name without a colon
\* nothing is handed to SetFromUserInput and the layer has no SRS.
C10_OneAttemptWhenColon ==
    (pc = "done" /\ oClass.pszSRSName # <<>>) =>
        LET name == oClass.pszSRSName[1]
        IN  IF \E i \in 1 .. Len(name) : name[i] = ":"
            THEN /\ srsInputs = <<C10_Expected(name)>>
                 /\ Cardinality(C10_Matches(C10_Handle(name))) <= 1
            ELSE srsInputs = <<>> /\ oLayer[1].poSRS = <<>>

\* The SRS name urn:adv:crs:DE_DHDN_3GK2_NW101 has been resolved to
\* EPSG:31466, which was the one string handed to SetFromUserInput.
C10_Witness ==
    /\ pc = "done"
    /\ oClass.pszSRSName = <<<<"u", "r", "n", ":", "a", "d", "v", ":", "c", "r", "s", ":", "D", "E", "_", "D", "H", "D", "N", "_", "3", "G", "K", "2", "_", "N", "W", "1", "0", "1">>>>
    /\ srsInputs = <<<<"E", "P", "S", "G", ":", "3", "1", "4", "6", "6">>>>
    /\ oLayer[1].poSRS = <<<<"E", "P", "S", "G", ":", "3", "1", "4", "6", "6">>>>

\* SetFromUserInput was called and the layer carries no spatial reference:
\* the build of the spatial reference failed.
C11_SRSBuildFailed ==
    /\ pc = "done"
    /\ srsInputs # <<>>
    /\ (oLayer = <<>> \/ oLayer[1].poSRS = <<>>)

\* C11: a failed build of the spatial reference never aborts the
\* translation: a layer is still returned, it has no SRS, and its name,
\* geometry type and whole field list are those of the same class
\* translated with a successful build (the class name, the resolved
\* geometry type, one field per property).
C11_SRSFailureKeepsLayer ==
    C11_SRSBuildFailed =>
        /\ Len(oLayer) = 1
        /\ oLayer[1].poSRS = <<>>
        /\ LET built == TranslateNASSchema(oClass, TRUE).layer
           IN  /\ built.poSRS # <<>>
               /\ oLayer[1].name = built.name
               /\ oLayer[1].eGType = built.eGType
               /\ oLayer[1].fields = built.fields
        /\ oLayer[1].name = oClass.name
        /\ Len(oLayer[1].fields) = Len(oClass.props)

\* The build from EPSG:25832 failed for a class of two properties, and the
\* layer without SRS has its two fields.
C11_Witness ==
    /\ C11_SRSBuildFailed
    /\ srsInputs = <<<<"E", "P", "S", "G", ":", "2", "5", "8", "3", "2">>>>
    /\ Len(oClass.props) = MaxProps
    /\ Len(oLayer[1].fields) = MaxProps
    /\ oLayer[1].eGType = "wkbPolygon"

\* The field type the claim C12 names for a GML property type.
C12_Type(eGMLType) ==
    IF eGMLType \in {"GMLPT_Untyped", "GMLPT_String"} THEN "OFTString"
    ELSE IF eGMLType = "GMLPT_Integer" THEN "OFTInteger"
    ELSE IF eGMLType = "GMLPT_Real" THEN "OFTReal"
    ELSE IF eGMLType = "GMLPT_StringList" THEN "OFTStringList"
    ELSE IF eGMLType = "GMLPT_IntegerList" THEN "OFTIntegerList"
    ELSE IF eGMLType = "GMLPT_RealList" THEN "OFTRealList"
    ELSE "OFTString"

\* A property name without its leading "ogr:", whatever the letter case
\* of the prefix.
C12_Name(name) ==
    IF Len(name) >= 4 /\ UpperOf(SubSeq(name, 1, 4)) = <<"O", "G", "R", ":">>
    THEN SubSeq(name, 5, Len(name))
    ELSE name

\* C12: the layer has exactly one field per property of the class, in the
\* declared order; the field type is String for Untyped and String,
\* Integer for Integer, Real for Real, the same list type for the three
\* list types and String for anything else; the field name is the property
\* name without a leading "ogr:" (in any letter case); the field width is
\* the property width when that is positive and 0 otherwise.
C12_FieldsMirrorProperties ==
    pc = "done" =>
        /\ Len(oLayer) = 1
        /\ Len(oLayer[1].fields) = Len(oClass.props)
        /\ \A i \in 1 .. Len(oClass.props) :
              LET poProperty == oClass.props[i]
              IN  oLayer[1].fields[i] =
                      [name |-> C12_Name(poProperty.name),
                       eType |-> C12_Type(poProperty.eType),
                       nWidth |-> IF poProperty.nWidth > 0
                                  THEN poProperty.nWidth ELSE 0]

\* The class with the properties OGR:y (Complex, width -1) and ogr:x
\* (IntegerList, width 8) has been translated to the fields y (String,
\* width 0) and x (IntegerList, width 8), in this order.
C12_Witness ==
    /\ pc = "done"
    /\ oClass.props =
          << [name |-> <<"O", "G", "R", ":", "y">>, eType |-> "GMLPT_Complex",
              nWidth |-> -1],
             [name |-> <<"o", "g", "r", ":", "x">>, eType |-> "GMLPT_IntegerList",
              nWidth |-> 8] >>
    /\ oLayer[1].fields =
          << [name |-> <<"y">>, eType |-> "OFTString", nWidth |-> 0],
             [name |-> <<"x">>, eType |-> "OFTIntegerList", nWidth |-> 8] >>

(***************************************************************************)
(* Claims about PopulateRelations.                                         *)
(***************************************************************************)

\* The values of the feature's identifier property gml_id (none when the
\* class has no such property or the feature no value for it).
C13_IdValues(f) ==
    IF f.nGMLIdIndex \in 0 .. (Len(f.properties) - 1)
    THEN f.properties[f.nGMLIdIndex + 1].papszSubProperties
    ELSE <<>>

\* value starts with prefix, letter by letter (bAnyCase = FALSE) or without
\* regard to letter case (bAnyCase = TRUE).
C13_StartsWith(value, prefix, bAnyCase) ==
    /\ Len(value) >= Len(prefix)
    /\ IF bAnyCase
       THEN UpperOf(SubSeq(value, 1, Len(prefix))) = UpperOf(prefix)
       ELSE SubSeq(value, 1, Len(prefix)) = prefix

\* The records of one feature: one per qualifying OB property, in the
\* order of the OB properties.
C13_FeatureRecords(f, bAnyCase) ==
    LET n == Len(f.papszOBProperties)
        value(k) == CPLParseNameValue(f.papszOBProperties[k]).pszValue[1]
        name(k) == CPLParseNameValue(f.papszOBProperties[k]).pszKey[1]
        qualifying == SelectSeq([k \in 1 .. n |-> k],
                                LAMBDA k : /\ C13_StartsWith(value(k), OIDPrefix, bAnyCase)
                                           /\ Len(C13_IdValues(f)) = 1)
    IN  [j \in 1 .. Len(qualifying) |->
            [source |-> C13_IdValues(f)[1],
             name |-> name(qualifying[j]),
             target |-> SubSeq(value(qualifying[j]), 13, Len(value(qualifying[j])))]]

\* The records of a stream: those of its features, in stream order.
RECURSIVE C13_StreamRecords(_, _)
C13_StreamRecords(features, bAnyCase) ==
    IF features = <<>> THEN <<>>
    ELSE C13_FeatureRecords(Head(features), bAnyCase)
             \o C13_StreamRecords(Tail(features), bAnyCase)

\* C13 as stated: one pass emits exactly one record for every (feature, OB
\* property) pair whose value starts with "urn:adv:oid:" and whose feature
\* has exactly one gml_id value, and none for any other pair; the record is
\* (the gml_id value, the parsed name, the value without its first 12
\* characters); the records are in stream order and, within a feature, in
\* OB property order.
C13_OneRecordPerLiteralPrefix ==
    (pc = "idle" /\ nCalls = 1) =>
        oRelationLayer.relations = C13_StreamRecords(oReader.features, FALSE)

\* C13 as amended: as above, with the prefix "urn:adv:oid:" recognised
\* without regard to letter case; while the pass is under way the records
\* are those of the features consumed so far.
C13_OneRecordPerPrefixAnyCase ==
    /\ (pc = "idle" /\ nCalls = 1) =>
          oRelationLayer.relations = C13_StreamRecords(oReader.features, TRUE)
    /\ (pc = "loop" /\ nCalls = 1) =>
          oRelationLayer.relations =
              C13_StreamRecords(SubSeq(oReader.features, 1, oReader.iNext - 1), TRUE)

\* One pass over a stream of two features, the first with one and the
\* second with two object references, has emitted these three records in
\* this order.
C13_Witness ==
    /\ pc = "idle"
    /\ nCalls = 1
    /\ Len(oReader.features) = 2
    /\ oRelationLayer.relations =
          << [source |-> "DEBW001", name |-> <<"i", "s", "t", "T", "e", "i", "l", "V", "o", "n">>,
              target |-> <<"D", "E", "B", "W", "0", "0", "2">>],
             [source |-> "DEBW002", name |-> <<"g", "e", "h", "o", "e", "r", "t", "Z", "u">>,
              target |-> <<"D", "E", "B", "W", "0", "0", "1">>],
             [source |-> "DEBW002", name |-> <<"h", "a", "t">>,
              target |-> <<"D", "E", "B", "W", "0", "0", "5">>] >>

\* a is an initial part of b.
IsPrefix(a, b) == Len(a) <= Len(b) /\ SubSeq(b, 1, Len(a)) = a

\* Every record the stream calls for is in the relation layer.
C14_AllProcessed ==
    IsPrefix(C13_StreamRecords(oReader.features, TRUE), oRelationLayer.relations)

\* C14 as stated: the relation layer is marked populated exactly once;
\* in every state where the marker is set all qualifying features have
\* been processed; no record is added after the marker is set.
C14_MarkedOnceAndFinal ==
    /\ [](nMarked <= 1)
    /\ [](oRelationLayer.bPopulated => C14_AllProcessed)
    /\ [][oRelationLayer.bPopulated =>
             oRelationLayer'.relations = oRelationLayer.relations]_vars

\* What holds of the marker in every state.
C14_State ==
    /\ nMarked = (IF pc = "loop" THEN nCalls - 1 ELSE nCalls)
    /\ oRelationLayer.bPopulated <=> nMarked >= 1
    /\ oRelationLayer.bPopulated => C14_AllProcessed

\* What holds of the marker in every step.
C14_Step ==
    /\ nMarked' # nMarked =>
          /\ nMarked' = nMarked + 1
          /\ pc = "loop" /\ pc' = "idle"
          /\ nConsumed = Len(oReader.features)
          /\ oReader.iNext = Len(oReader.features) + 1
          /\ oRelationLayer'.bPopulated
          /\ oRelationLayer'.relations = oRelationLayer.relations
    /\ oRelationLayer'.relations # oRelationLayer.relations =>
          pc = "loop" /\ pc' = "loop"
    /\ (oRelationLayer.bPopulated /\ nCalls' = 1) =>
          oRelationLayer'.relations = oRelationLayer.relations

\* C14 as amended: every call of PopulateRelations sets the marker exactly
\* once, as its last step, after its pass has consumed every feature of
\* the stream from the beginning, and adds no record in or after that
\* step; the marker is unset throughout the first call's pass, and set only
\* in states where every qualifying feature has been processed.  No record
\* is added while the marker is set unless PopulateRelations is called
\* again.
C14_MarkedAtEndOfEachPass ==
    /\ []C14_State
    /\ [][C14_Step]_vars

\* The first call has gone through a stream of two features, emitted three
\* records and then set the marker.
C14_Witness ==
    /\ pc = "idle"
    /\ nCalls = 1
    /\ nMarked = 1
    /\ oRelationLayer.bPopulated
    /\ nConsumed = 2
    /\ Len(oReader.features) = 2
    /\ Len(oRelationLayer.relations) = 3

\* n copies of seq, one after the other.
RECURSIVE C15_Repeat(_, _)
C15_Repeat(seq, n) == IF n = 0 THEN <<>> ELSE seq \o C15_Repeat(seq, n - 1)

\* C15: PopulateRelations has no guard and is not idempotent: every call,
\* the second as the first, runs the full pass over the stream and emits
\* every record of the stream again, so that after two calls the relation
\* layer holds each record of the first call twice.
C15_EachCallEmitsAgain ==
    LET emitted == C13_StreamRecords(oReader.features, TRUE)
    IN  /\ pc = "idle" =>
              /\ oRelationLayer.relations = C15_Repeat(emitted, nCalls)
              /\ nCalls >= 1 => nConsumed = Len(oReader.features)
        /\ pc = "loop" =>
              /\ nConsumed = oReader.iNext - 1
              /\ oRelationLayer.relations =
                    C15_Repeat(emitted, nCalls - 1)
                        \o C13_StreamRecords(SubSeq(oReader.features, 1, nConsumed), TRUE)

\* Two calls on a stream of two features with three object references have
\* left six records, the three of the first call followed by the same
\* three again.
C15_Witness ==
    /\ pc = "idle"
    /\ nCalls = 2
    /\ nMarked = 2
    /\ nConsumed = 2
    /\ Len(oRelationLayer.relations) = 6
    /\ SubSeq(oRelationLayer.relations, 1, 3) = SubSeq(oRelationLayer.relations, 4, 6)
    /\ oRelationLayer.relations[1] # oRelationLayer.relations[2]

(***************************************************************************)
(* A further claim about GetTABType.                                       *)
(***************************************************************************)

\* C16: for every Real field of non-negative width and non-negative
\* precision that GetTABType maps to Decimal, the returned precision is
\* non-negative and the returned width is at least 2.
C16_DecimalPrecisionNonNegative ==
    (/\ pc = "done"
     /\ oField.eType = "OFTReal"
     /\ oField.nWidth >= 0
     /\ oField.nPrecision >= 0
     /\ tabOut.eTABType = "TABFDecimal") =>
        /\ tabOut.nPrecision >= 0
        /\ tabOut.nWidth >= 2

====
